---- MODULE Spec2Model ----
(***************************************************************************)
(* CohereBedrockEmbeddings (src/unnamed/part_000, lines 265-502): the      *)
(* embedding adapter for Cohere models on AWS Bedrock.                      *)
(*                                                                         *)
(* The adapter is constructed from a parameter object, then runs           *)
(* embedDocuments or embedQuery.  Each operation is followed step by step: *)
(* the batching loop of batchTexts, every attempt the retry wrapper        *)
(* (this.caller.call) makes, the request invokeCohere builds, and the      *)
(* answer of the remote endpoint, which is the environment's choice.       *)
(***************************************************************************)
EXTENDS Integers, Sequences, FiniteSets, TLC

VARIABLES params, adapter, run, twin

vars == <<params, adapter, run, twin>>

----------------------------------------------------------------------------
(* Bounds of the model *)

\* longest text, in characters
MaxTextLen == 2
\* longest short input of embedDocuments (the long inputs are around the clamp)
MaxDocs == 5
\* most batches one embedDocuments call is followed through; also caps the
\* iterations of a batching loop that does not advance
MaxBatches == 3

(* Program constants *)

\* Math.min(params.batchSize ?? 96, 96): "Cohere max is 96"
CohereMaxBatch == 96
\* params.maxRetries ?? 3
DefaultMaxRetries == 3
\* the retry wrapper is built by the base class from the raw params
\* (super(params)); with params.maxRetries undefined it falls back to the
\* default of @langchain/core's AsyncCaller, which is 6
AsyncCallerDefaultMaxRetries == 6

----------------------------------------------------------------------------
(* Optional constructor parameters: `set` is FALSE for undefined *)

Some(v) == [set |-> TRUE, v |-> v]
NoInt == [set |-> FALSE, v |-> 0]
NoStr == [set |-> FALSE, v |-> ""]

\* JavaScript's p ?? d
Nullish(p, d) == IF p.set THEN p.v ELSE d

Min(a, b) == IF a <= b THEN a ELSE b
Max(a, b) == IF a >= b THEN a ELSE b

----------------------------------------------------------------------------
(* Texts and vectors *)

Chars == {"a", "\n"}

Texts == UNION {[1..n -> Chars] : n \in 0..MaxTextLen}

\* the vector the model computes for the text it receives
Vec(t) == [kind |-> "vector", of |-> t]
\* JavaScript's undefined, where a vector is expected
Undefined == [kind |-> "undefined", of |-> <<>>]

\* the i-th document of the sample inputs: texts of varying length in which
\* newlines and letters alternate, neighbours always differing
DocAt(i) ==
  [j \in 1..(i % (MaxTextLen + 1)) |-> IF (i + j) % 2 = 0 THEN "\n" ELSE "a"]

Documents(n) == [i \in 1..n |-> DocAt(i)]

DocLengths == (0..MaxDocs) \cup {CohereMaxBatch, CohereMaxBatch + 1}

----------------------------------------------------------------------------
(* The constructor (lines 391-407) *)

\* the parameter objects the adapter is constructed from
BatchSizeParams == {NoInt, Some(-1), Some(0), Some(1), Some(2), Some(200)}
MaxRetriesParams == {NoInt, Some(0), Some(1), Some(3)}
OptionParams ==
  { [inputTypeDocument |-> NoStr, inputTypeQuery |-> NoStr, truncate |-> NoStr],
    [inputTypeDocument |-> Some("classification"),
     inputTypeQuery |-> Some("clustering"), truncate |-> Some("START")] }

ParamsSet ==
  { [model |-> "cohere.embed-english-v3",
     inputTypeDocument |-> o.inputTypeDocument,
     inputTypeQuery |-> o.inputTypeQuery,
     truncate |-> o.truncate,
     batchSize |-> b,
     maxRetries |-> m] :
    o \in OptionParams, b \in BatchSizeParams, m \in MaxRetriesParams }

\* a constructor that forgets the clamp
batchSizeUnclamped(p) == Nullish(p.batchSize, CohereMaxBatch)

\* this.batchSize = Math.min(params.batchSize ?? 96, 96)
batchSizeOf(p) == Min(Nullish(p.batchSize, CohereMaxBatch), CohereMaxBatch)

\* this.maxRetries = params.maxRetries ?? 3
maxRetriesOf(p) == Nullish(p.maxRetries, DefaultMaxRetries)

\* super(params): the base class builds this.caller from the raw params, so
\* the wrapper's budget is params.maxRetries, or the wrapper's own default
callerMaxRetriesOf(p) == Nullish(p.maxRetries, AsyncCallerDefaultMaxRetries)

Constructor(p) ==
  [ model |-> p.model,
    inputTypeDocument |-> Nullish(p.inputTypeDocument, "search_document"),
    inputTypeQuery |-> Nullish(p.inputTypeQuery, "search_query"),
    truncate |-> Nullish(p.truncate, "END"),
    batchSize |-> batchSizeOf(p),
    maxRetries |-> maxRetriesOf(p),
    callerMaxRetries |-> callerMaxRetriesOf(p) ]

----------------------------------------------------------------------------
(* The remote endpoint: what client.send resolves to (lines 429-431) *)

\* a JavaScript value where the vector array is expected: `t` is what the
\* value is (typeof alone does not tell arrays, objects and null apart)
JsArray(items) == [t |-> "array", items |-> items]
JsOther(t) == [t |-> t, items |-> <<>>]

\* the embeddings field of the parsed response body
FieldArray(items) ==
  [t |-> "array", items |-> items, hasFloat |-> FALSE, float |-> JsOther("undefined")]
FieldObject(hasFloat, float) ==
  [t |-> "object", items |-> <<>>, hasFloat |-> hasFloat, float |-> float]
FieldOther(t) ==
  [t |-> t, items |-> <<>>, hasFloat |-> FALSE, float |-> JsOther("undefined")]

\* one vector per text received, in order
GoodVectors(texts) == [i \in 1..Len(texts) |-> Vec(texts[i])]
\* the last vector missing
ShortVectors(texts) == SubSeq(GoodVectors(texts), 1, Len(texts) - 1)

EmbeddingsFields(texts) ==
  { FieldArray(GoodVectors(texts)),                       \* v3
    FieldArray(ShortVectors(texts)),
    FieldObject(TRUE, JsArray(GoodVectors(texts))),       \* v4
    FieldObject(TRUE, JsOther("null")),
    FieldObject(TRUE, JsOther("number")),
    FieldObject(FALSE, JsOther("undefined")),
    FieldOther("string"),
    FieldOther("number"),
    FieldOther("null"),
    FieldOther("undefined") }                             \* the field is missing

\* client.send rejects (a network or service error)
Rejected == [ok |-> FALSE, embeddings |-> FieldOther("undefined")]
Resolved(e) == [ok |-> TRUE, embeddings |-> e]

RemoteAnswers(texts) == {Rejected} \cup {Resolved(e) : e \in EmbeddingsFields(texts)}

----------------------------------------------------------------------------
(* extractEmbeddings (lines 440-456) *)

\* JavaScript's typeof
TypeOf(e) == IF e.t \in {"array", "object", "null"} THEN "object" ELSE e.t

Returned(v) == [thrown |-> "none", value |-> v]
Thrown(err) == [thrown |-> err, value |-> JsOther("undefined")]

\* `e` is response.embeddings.  "Malformed" is the Error "Unexpected Cohere
\* response format: ..."; for null the first test reaches `'float' in null`,
\* which throws a TypeError
extractEmbeddings(e) ==
  IF TypeOf(e) = "object" /\ e.t # "array" /\ e.t = "null"
  THEN Thrown("TypeError")
  ELSE IF TypeOf(e) = "object" /\ e.t # "array" /\ e.hasFloat
  THEN Returned(e.float)
  ELSE IF e.t = "array"
  THEN Returned(JsArray(e.items))
  ELSE Thrown("Malformed")

----------------------------------------------------------------------------
(* invokeCohere's request (lines 412-427) *)

RECURSIVE ReplaceAllNewlines(_)
ReplaceAllNewlines(t) ==
  IF t = <<>> THEN <<>>
  ELSE <<IF Head(t) = "\n" THEN " " ELSE Head(t)>> \o ReplaceAllNewlines(Tail(t))

RECURSIVE ReplaceFirstNewline(_)
\* text.replace(/\n/, ' '), the regular expression without its g flag
ReplaceFirstNewline(t) ==
  IF t = <<>> THEN <<>>
  ELSE IF Head(t) = "\n" THEN <<" ">> \o Tail(t)
  ELSE <<Head(t)>> \o ReplaceFirstNewline(Tail(t))

\* text.replace(/\n/g, ' ')
cleanText(t) == ReplaceAllNewlines(t)

NoRequest == [modelId |-> "", texts |-> <<>>, input_type |-> "", truncate |-> ""]

requestBody(a, texts, inputType) ==
  [ modelId |-> a.model,
    texts |-> [i \in 1..Len(texts) |-> cleanText(texts[i])],
    input_type |-> inputType,
    truncate |-> a.truncate ]

----------------------------------------------------------------------------
(* One invocation of embedDocuments or embedQuery *)

\* pc: "idle"      no operation has been called
\*     "batching"  in the loop of batchTexts
\*     "call"      the retry wrapper is about to run the wrapped invokeCohere
\*     "sent"      client.send is awaited
\*     "done"      the operation returned or threw
IdleRun ==
  [ op |-> "none", pc |-> "idle", documents |-> <<>>,
    i |-> 0, batches |-> <<>>,        \* batchTexts' loop
    k |-> 0,                          \* the batch embedDocuments is at
    attempt |-> 0,                    \* attempts of the current wrapped call
    calls |-> 0,                      \* client.send calls of the operation
    inFlight |-> {},                  \* batches whose client.send is awaited
    resolved |-> <<>>,                \* batches whose wrapped call returned
    failures |-> 0,                   \* attempts that threw inside the wrapper
    request |-> NoRequest,            \* the last request built
    response |-> Rejected,            \* how the last client.send settled
    lastError |-> "none",             \* what the last attempt threw
    allEmbeddings |-> <<>>,
    status |-> "none",                \* "ok": returned, "failed": threw
    result |-> <<>>,                  \* what embedDocuments returned
    value |-> Undefined ]             \* what embedQuery returned

\* Array.prototype.slice(start, end) on a sequence (indices from 0)
slice(s, start, end) ==
  LET n == Len(s)
      from == IF start < 0 THEN Max(n + start, 0) ELSE Min(start, n)
      to == IF end < 0 THEN Max(n + end, 0) ELSE Min(end, n)
  IN SubSeq(s, from + 1, to)

\* a loop that pushes one element too many into every batch
batchTextsStepOverlong(a, r) ==
  IF r.i < Len(r.documents)
  THEN [r EXCEPT !.batches = Append(@, slice(r.documents, r.i, r.i + a.batchSize + 1)),
                 !.i = @ + a.batchSize]
  ELSE [r EXCEPT !.pc = "call", !.k = 1, !.attempt = 0]

\* one iteration of batchTexts' loop (lines 463-465), or its exit, after
\* which embedDocuments starts on the first batch
batchTextsStep(a, r) ==
  IF r.i < Len(r.documents)
  THEN [r EXCEPT !.batches = Append(@, slice(r.documents, r.i, r.i + a.batchSize)),
                 !.i = @ + a.batchSize]
  ELSE [r EXCEPT !.pc = "call", !.k = 1, !.attempt = 0]

\* the emptiness test the wrong way round
embedDocumentsBeginInverted(a, documents) ==
  IF Len(documents) # 0
  THEN [IdleRun EXCEPT !.op = "embedDocuments", !.pc = "done", !.status = "ok"]
  ELSE [IdleRun EXCEPT !.op = "embedDocuments", !.pc = "batching",
                       !.documents = documents]

\* embedDocuments up to the batching loop (lines 473-479)
embedDocumentsBegin(a, documents) ==
  IF Len(documents) = 0
  THEN [IdleRun EXCEPT !.op = "embedDocuments", !.pc = "done", !.status = "ok"]
  ELSE [IdleRun EXCEPT !.op = "embedDocuments", !.pc = "batching",
                       !.documents = documents]

\* embedQuery up to the wrapped call (line 496)
embedQueryBegin(a, query) ==
  [IdleRun EXCEPT !.op = "embedQuery", !.pc = "call", !.documents = <<query>>,
                  !.batches = << <<query>> >>, !.k = 1]

\* the input-type each operation passes to invokeCohere (lines 483, 497)
inputTypeFor(a, r) ==
  IF r.op = "embedDocuments" THEN a.inputTypeDocument ELSE a.inputTypeQuery

\* every batch's call started at once, as batches.map(...) would, and only
\* the last one awaited
invokeCohereSendAll(a, r) ==
  [r EXCEPT !.pc = IF r.k < Len(r.batches) THEN "call" ELSE "sent",
            !.k = IF r.k < Len(r.batches) THEN @ + 1 ELSE @,
            !.attempt = IF r.k < Len(r.batches) THEN 0 ELSE @ + 1,
            !.calls = @ + 1,
            !.inFlight = @ \cup {r.k},
            !.request = requestBody(a, r.batches[r.k], inputTypeFor(a, r))]

\* the wrapper runs the wrapped function: invokeCohere builds the request
\* and awaits client.send (lines 412-429); the operation is suspended on the
\* await of line 482 or 496 until the call settles
invokeCohereSend(a, r) ==
  [r EXCEPT !.pc = "sent", !.attempt = @ + 1, !.calls = @ + 1,
            !.inFlight = @ \cup {r.k},
            !.request = requestBody(a, r.batches[r.k], inputTypeFor(a, r))]

\* an operation that returns what it has gathered when a batch fails
failOperationPartial(r, err) ==
  [r EXCEPT !.pc = "done", !.status = "ok", !.lastError = err,
            !.result = r.allEmbeddings]

\* the error leaves the operation: its locals are gone and nothing is returned
failOperation(r, err) ==
  [r EXCEPT !.pc = "done", !.status = "failed", !.lastError = err,
            !.allEmbeddings = <<>>]

\* this.caller.call (lines 482, 496) when the wrapped function throws: the
\* wrapper runs it again until callerMaxRetries retries are used up, whatever
\* was thrown, and then rethrows
callerOnFailure(a, r, err) ==
  IF r.attempt <= a.callerMaxRetries
  THEN [r EXCEPT !.pc = "call", !.failures = @ + 1, !.lastError = err]
  ELSE failOperation([r EXCEPT !.failures = @ + 1], err)

\* embedDocuments after a wrapped call returned (lines 485-488):
\* allEmbeddings.push(...embeddings) throws a TypeError for what cannot be
\* spread; then the next batch, or the return
embedDocumentsPush(r, embeddings) ==
  IF embeddings.t # "array"
  THEN failOperation(r, "TypeError")
  ELSE LET all == r.allEmbeddings \o embeddings.items
       IN IF r.k < Len(r.batches)
          THEN [r EXCEPT !.pc = "call", !.k = @ + 1, !.attempt = 0,
                         !.lastError = "none", !.allEmbeddings = all]
          ELSE [r EXCEPT !.pc = "done", !.status = "ok", !.lastError = "none",
                         !.allEmbeddings = all, !.result = all]

\* embedQuery after the wrapped call returned (line 500): embeddings[0]
\* throws a TypeError on null and undefined, and is undefined on an empty
\* array and on a number or an object
embedQueryFirst(r, embeddings) ==
  IF embeddings.t \in {"null", "undefined"}
  THEN failOperation(r, "TypeError")
  ELSE [r EXCEPT !.pc = "done", !.status = "ok", !.lastError = "none",
                 !.value = IF embeddings.t = "array" /\ Len(embeddings.items) > 0
                           THEN embeddings.items[1] ELSE Undefined]

\* client.send settles with `answer` (lines 429-434) and the wrapper and the
\* operation go on from there
invokeCohereSettle(a, r0, answer) ==
  LET r == [r0 EXCEPT !.response = answer, !.inFlight = @ \ {r0.k}]
      returned == [r EXCEPT !.resolved = Append(@, r0.k)]
  IN IF ~answer.ok
     THEN callerOnFailure(a, r, "Transient")
     ELSE LET x == extractEmbeddings(answer.embeddings)
          IN IF x.thrown # "none"
             THEN callerOnFailure(a, r, x.thrown)
             ELSE IF r.op = "embedDocuments"
             THEN embedDocumentsPush(returned, x.value)
             ELSE embedQueryFirst(returned, x.value)

----------------------------------------------------------------------------
(* The adapter running one operation at a time *)

Init ==
  /\ params \in ParamsSet
  /\ adapter = Constructor(params)
  /\ run = IdleRun
  /\ twin = IdleRun

\* embedDocuments is called with n documents; the model follows calls of at
\* most MaxBatches batches
EmbedDocuments ==
  /\ run.pc \in {"idle", "done"}
  /\ \E n \in DocLengths :
       /\ adapter.batchSize >= 1 => n <= MaxBatches * adapter.batchSize
       /\ run' = embedDocumentsBegin(adapter, Documents(n))
  /\ UNCHANGED <<params, adapter, twin>>

EmbedQuery ==
  /\ run.pc \in {"idle", "done"}
  /\ \E t \in Texts : run' = embedQueryBegin(adapter, t)
  /\ UNCHANGED <<params, adapter, twin>>

BatchTexts ==
  /\ run.pc = "batching"
  /\ Len(run.batches) <= MaxBatches
  /\ run' = batchTextsStep(adapter, run)
  /\ UNCHANGED <<params, adapter, twin>>

Send ==
  /\ run.pc = "call"
  /\ run' = invokeCohereSend(adapter, run)
  /\ UNCHANGED <<params, adapter, twin>>

Settle ==
  /\ run.pc = "sent"
  /\ \E answer \in RemoteAnswers(run.request.texts) :
       run' = invokeCohereSettle(adapter, run, answer)
  /\ UNCHANGED <<params, adapter, twin>>

Next == EmbedDocuments \/ EmbedQuery \/ BatchTexts \/ Send \/ Settle

Spec == Init /\ [][Next]_vars

----------------------------------------------------------------------------
(* embedQuery(text) beside embedDocuments([text]): `run` is the query, `twin` *)
(* the one-document call on the same adapter, and every answer of the remote *)
(* endpoint is given to both                                                  *)

PairBegin ==
  /\ run.pc = "idle" /\ twin.pc = "idle"
  /\ \E t \in Texts :
       /\ run' = embedQueryBegin(adapter, t)
       /\ twin' = embedDocumentsBegin(adapter, <<t>>)
  /\ UNCHANGED <<params, adapter>>

PairBatchTexts ==
  /\ twin.pc = "batching"
  /\ Len(twin.batches) <= MaxBatches
  /\ twin' = batchTextsStep(adapter, twin)
  /\ UNCHANGED <<params, adapter, run>>

PairSendQuery ==
  /\ run.pc = "call"
  /\ run' = invokeCohereSend(adapter, run)
  /\ UNCHANGED <<params, adapter, twin>>

PairSendDocuments ==
  /\ twin.pc = "call"
  /\ twin' = invokeCohereSend(adapter, twin)
  /\ UNCHANGED <<params, adapter, run>>

PairSettle ==
  /\ run.pc = "sent" /\ twin.pc = "sent"
  /\ \E answer \in RemoteAnswers(run.request.texts) :
       /\ run' = invokeCohereSettle(adapter, run, answer)
       /\ twin' = invokeCohereSettle(adapter, twin, answer)
  /\ UNCHANGED <<params, adapter>>

PairNext ==
  PairBegin \/ PairBatchTexts \/ PairSendQuery \/ PairSendDocuments \/ PairSettle

SpecPair == Init /\ [][PairNext]_vars

----------------------------------------------------------------------------
(* Properties *)

\* ceil(n / b) for b >= 1
Ceil(n, b) == (n + b - 1) \div b

First(seq) == IF Len(seq) > 0 THEN seq[1] ELSE Undefined

IsDocuments == run.op = "embedDocuments"
Returns == run.pc = "done" /\ run.status = "ok"

\* the j-th of the contiguous slices of at most b elements
Chunk(s, b, j) == SubSeq(s, (j - 1) * b + 1, Min(j * b, Len(s)))

\* the last attempt threw inside the wrapped function
ThrewInsideWrapper(r) ==
  /\ r.calls > 0 /\ r.pc # "sent"
  /\ \/ ~r.response.ok
     \/ extractEmbeddings(r.response.embeddings).thrown # "none"

\* C1 (as claimed): an embedDocuments call on a non-empty input that returns,
\* returns one vector per input string, the i-th being the vector of the i-th
\* string, whatever the accepted responses were.
C1_SameLengthSameOrder ==
  (IsDocuments /\ Returns /\ run.documents # <<>>) =>
    /\ Len(run.result) = Len(run.documents)
    /\ \A i \in 1..Len(run.result) :
         run.result[i] = Vec(cleanText(run.documents[i]))

\* C2: when a batch's wrapped call has failed on every attempt of the retry
\* budget, embedDocuments has thrown, nothing it gathered is returned, and the
\* last request sent is the failing batch's: no later batch was called.
C2_AllOrNothing ==
  (IsDocuments /\ run.pc = "done" /\ ThrewInsideWrapper(run)) =>
    /\ run.status = "failed"
    /\ run.result = <<>> /\ run.allEmbeddings = <<>>
    /\ run.attempt = adapter.callerMaxRetries + 1
    /\ run.k \in 1..Len(run.batches)
    /\ run.request = requestBody(adapter, run.batches[run.k], adapter.inputTypeDocument)
    /\ run.calls = (run.k - 1) + run.failures

C2_Witness ==
  /\ IsDocuments /\ run.pc = "done" /\ run.status = "failed"
  /\ ~run.response.ok
  /\ run.k = 2 /\ Len(run.batches) = 3
  /\ run.attempt = 2

\* C3 (as claimed): no remote call is issued for a batch after an attempt for
\* it ended in the malformed-response error.
C3_MalformedNotRetried ==
  ~(run.pc = "sent" /\ run.attempt >= 2 /\ run.lastError = "Malformed")

\* C4 (as claimed): the wrapper retries within the adapter's budget
\* (this.maxRetries, 3 when the constructor is given none).
C4_RetriesWithinAdapterBudget ==
  run.attempt - 1 <= adapter.maxRetries

\* C5 (as claimed): the decode of response.embeddings has three cases: an
\* object with a float key gives the value of that key, an array gives
\* itself, and every other value ends the attempt in the malformed-response
\* error.
C5_ThreeWayDecode ==
  (run.calls > 0 /\ run.pc # "sent" /\ run.response.ok) =>
    LET e == run.response.embeddings
    IN IF e.t = "object" /\ e.hasFloat
       THEN run.lastError # "Malformed"
       ELSE IF e.t = "array"
       THEN run.lastError = "none"
       ELSE run.lastError = "Malformed"

\* C6 (as claimed): an embedDocuments call that returns has issued exactly
\* ceil(N / B) remote calls.
C6_ExactlyCeilRemoteCalls ==
  (IsDocuments /\ Returns /\ run.documents # <<>>) =>
    run.calls = Ceil(Len(run.documents), adapter.batchSize)

\* C6 (amended): once batchTexts has returned, the batches are the
\* ceil(N / B) contiguous in-order slices of at most B elements; the wrapped
\* calls are made one per batch in order; and the remote calls are one per
\* wrapped call plus one per failed attempt, so a call that returns with no
\* failed attempt has issued exactly ceil(N / B) remote calls.
C6_OneWrappedCallPerBatch ==
  (IsDocuments /\ run.pc \in {"call", "sent", "done"} /\ run.documents # <<>>) =>
    LET N == Len(run.documents)
        B == adapter.batchSize
    IN /\ B >= 1
       /\ Len(run.batches) = Ceil(N, B)
       /\ \A j \in 1..Len(run.batches) : run.batches[j] = Chunk(run.documents, B, j)
       /\ run.k \in 1..Len(run.batches)
       /\ run.pc = "sent" =>
            /\ run.request.texts =
                 [i \in 1..Len(run.batches[run.k]) |-> cleanText(run.batches[run.k][i])]
            /\ run.calls = run.k + run.failures
       /\ run.pc = "call" => run.calls = (run.k - 1) + run.failures
       /\ Returns =>
            /\ run.k = Ceil(N, B)
            /\ run.calls = Ceil(N, B) + run.failures

C6_Witness ==
  /\ IsDocuments /\ Returns
  /\ Len(run.batches) = 3
  /\ Len(run.batches[3]) < adapter.batchSize
  /\ run.failures >= 1

\* C7: embedDocuments on an empty input has returned the empty sequence at
\* once: no batching, no wrapped call, no request, no remote call.
C7_EmptyInput ==
  (IsDocuments /\ run.documents = <<>>) =>
    /\ Returns /\ run.result = <<>>
    /\ run.calls = 0 /\ run.attempt = 0 /\ run.k = 0
    /\ run.batches = <<>> /\ run.request = NoRequest

C7_Witness ==
  IsDocuments /\ run.documents = <<>> /\ run.pc = "done" /\ run.calls = 0

\* C8: the effective batch size is the requested one (96 when none is
\* given) clamped to 96, and no request carries more than 96 strings.
C8_BatchSizeClamp ==
  /\ adapter.batchSize <= CohereMaxBatch
  /\ ~params.batchSize.set => adapter.batchSize = CohereMaxBatch
  /\ (params.batchSize.set /\ params.batchSize.v <= CohereMaxBatch) =>
       adapter.batchSize = params.batchSize.v
  /\ (params.batchSize.set /\ params.batchSize.v > CohereMaxBatch) =>
       adapter.batchSize = CohereMaxBatch
  /\ Len(run.request.texts) <= CohereMaxBatch
  /\ \A j \in 1..Len(run.batches) : Len(run.batches[j]) <= CohereMaxBatch

C8_Witness ==
  /\ params.batchSize.set /\ params.batchSize.v = 200
  /\ Len(run.documents) = CohereMaxBatch + 1
  /\ run.pc = "sent" /\ Len(run.request.texts) = CohereMaxBatch

\* C9 (as claimed): embedQuery(text) and embedDocuments([text]), given the
\* same answers, send the same requests but for the input-type, end
\* together, both return or both throw, and the query's vector is the first
\* element of the documents' result.
C9_QueryIsFirstOfDocuments ==
  /\ (run.pc = "sent" /\ twin.pc = "sent") =>
       /\ run.request.texts = twin.request.texts
       /\ run.request.truncate = twin.request.truncate
       /\ run.request.modelId = twin.request.modelId
       /\ run.request.input_type = adapter.inputTypeQuery
       /\ twin.request.input_type = adapter.inputTypeDocument
  /\ (run.pc = "done" \/ twin.pc = "done") =>
       /\ run.pc = twin.pc
       /\ run.status = twin.status
       /\ run.calls = twin.calls
       /\ run.status = "ok" => run.value = First(twin.result)

\* C10: the request awaited carries the current batch's strings in order,
\* each with every newline turned into one space and every other character
\* kept, the input-type of the operation, and the configured truncation.
C10_RequestPayload ==
  run.pc = "sent" =>
    LET batch == run.batches[run.k]
        sent == run.request.texts
    IN /\ Len(sent) = Len(batch)
       /\ \A i \in 1..Len(batch) :
            /\ Len(sent[i]) = Len(batch[i])
            /\ \A c \in 1..Len(batch[i]) :
                 sent[i][c] = (IF batch[i][c] = "\n" THEN " " ELSE batch[i][c])
       /\ run.request.input_type =
            (IF IsDocuments THEN adapter.inputTypeDocument ELSE adapter.inputTypeQuery)
       /\ run.request.truncate = adapter.truncate
       /\ run.request.modelId = params.model

C10_Witness ==
  /\ run.pc = "sent" /\ run.op = "embedQuery"
  /\ run.batches[1][1] = <<"\n", "\n">>
  /\ run.request.texts[1] = <<" ", " ">>
  /\ run.request.input_type = "clustering"

\* C11: within one embedDocuments call at most one remote call is in flight,
\* it is the call of the batch the loop is at, and when a batch's call is
\* issued the wrapped calls of all earlier batches, and only those, have
\* returned, in input order.
C11_OneBatchAtATime ==
  IsDocuments =>
    /\ Cardinality(run.inFlight) <= 1
    /\ run.pc = "sent" => run.inFlight = {run.k}
    /\ run.pc # "sent" => run.inFlight = {}
    /\ run.pc \in {"call", "sent"} => run.resolved = [j \in 1..(run.k - 1) |-> j]
    /\ (Returns /\ run.documents # <<>>) =>
         run.resolved = [j \in 1..Len(run.batches) |-> j]

C11_Witness ==
  /\ IsDocuments /\ run.pc = "sent"
  /\ Len(run.batches) = 3 /\ run.k = 2
  /\ run.inFlight = {2} /\ run.resolved = <<1>>
  /\ run.attempt = 2

\* C12 (as claimed): the batching loop advances: after every iteration the
\* index has moved on by at least one per batch pushed, so the loop ends
\* within as many iterations as there are documents.
C12_BatchingLoopAdvances ==
  (run.pc = "batching" /\ Len(run.batches) >= 1) =>
    /\ adapter.batchSize >= 1
    /\ run.i >= Len(run.batches)
    /\ Len(run.batches) <= Len(run.documents)

====
